---- MODULE Spec2Model ----
(***************************************************************************)
(* Motion control and orchestration of the pick-and-sort robot.            *)
(*                                                                         *)
(*   Spec       one Stepper (src/devices/stepper.py): its worker thread    *)
(*              running loop(), and one caller thread using start(),       *)
(*              stop(), the target attribute and wait().                   *)
(*   SpecLive   Spec with the worker thread scheduled fairly.              *)
(*   SpecOrch   WebcamMQTTPublisher (src/main.py): the MQTT thread, the     *)
(*              button thread and the sort workers.                        *)
(*   SpecSystem System.process_sort_request (src/subsystems/__init__.py).  *)
(*   SpecGantry Gantry (src/subsystems/gantry.py) over two TMCStepper      *)
(*              motors, for every calibration.                             *)
(*   SpecConfigGantry  the same, for the calibration of src/config.py.     *)
(*   SpecConstruct  the construction of a Gantry (Gantry.__init__).        *)
(*   SpecServo  EndEffector and Claw (src/subsystems/end_effector.py,      *)
(*              src/subsystems/claw.py) over their servos.                 *)
(*   SpecDelay  the delay attribute of a Stepper and the worker's use of   *)
(*              it in continuous mode.                                     *)
(***************************************************************************)
EXTENDS Integers, Sequences, FiniteSets, TLC

\* ---------------------------------------------------------------- bounds
\* Targets a caller assigns are 0 and MaxTarget; continuous mode is followed
\* while |steps| <= MaxPos.
MaxTarget == 3
MaxPos == 4
\* accel_steps constructor argument (the ramp length) used by the model.
AccelSteps == 2
\* Categorization results received, and images captured and published.
MaxSorts == 2
MaxCaptures == 1
\* Length of the log of writes up to which a direct caller starts a request.
MaxDirectOps == 10
\* Gantry calibrations: each zero offset is in 0..MaxZero and each steps-per-inch
\* value in 1..MaxSpi. Cartesian coordinates are multiples of 1/CartDen inch,
\* from 0 to MaxCart/CartDen.
MaxZero == 1
MaxSpi == 2
CartDen == 2
MaxCart == 3
\* Calls a thread makes on the gantry.
MaxGantryCalls == 2
\* Pitch, roll and yaw commands are 0 and MaxAngle degrees; normalized claw
\* commands are the multiples of 1/TDen from 0 to 1.
MaxAngle == 1
TDen == 2
\* ------------------------------------------------------ program constants
\* GANTRY_HEIGHT, inches.
GANTRY_HEIGHT == 18
\* The parameters System.process_sort_request declares after self: position.
SystemProcessSortRequestParams == 1
\* delay = 0.001 s and max_delay = 0.007 s, in milliseconds.
BaseDelay == 1
MaxDelay == 7
\* self.steps after construction and after stop().
ResetSteps == -1
\* The angle of the differential and yaw servos at construction (config.py).
NeutralAngle == 135
\* Claw.__init__: grip_open, grip_closed, support_open, support_closed.
GripOpen == 165
GripClosed == 210
SupportOpen == 100
SupportClosed == 190

\* Python's None and a present value.
None == <<>>
Some(v) == <<v>>

Targets == {0, MaxTarget}

\* The threads that handle inbound events: the MQTT network loop
\* (on_mqtt_message) and gpiozero's button thread (button.when_pressed).
Handlers == {"mqtt", "button"}

\* Threads that run a sort request: the sort workers started by
\* on_mqtt_message, and a caller of System.process_sort_request itself.
SortWorkers == 1..MaxSorts
DirectCaller == MaxSorts + 1
Executors == {DirectCaller} \cup SortWorkers

\* Category.id and Category.position of the categorization results received.
Categories == {[id |-> 3, x |-> 4, y |-> 2], [id |-> 5, x |-> 1, y |-> 7]}

\* System.__init__'s grab_position, (6.0, 0.5), as <<numerator, denominator>>
\* pairs.
GrabPosition == << <<6, 1>>, <<1, 2>> >>

\* Positions a direct caller passes.
DirectPositions == { <<4, 16>>, <<1, 11>> }

\* Direction.ccw.value and Direction.cw.value
Ccw == 1
Cw == -1

\* Nema17Stepper's sequence table (index 0 of the code is index 1 here).
Seq4 == << <<1, 1, 0, 0>>, <<0, 1, 1, 0>>, <<0, 0, 1, 1>>, <<1, 0, 0, 1>> >>

Abs(n) == IF n < 0 THEN -n ELSE n
Max(a, b) == IF a >= b THEN a ELSE b

VARIABLES
    \* ---- Stepper fields
    steps,              \* self.steps
    target,             \* self.target: None or Some(int)
    direction,          \* self.direction.value
    delay,              \* self._delay, scaled by AccelSteps (see Scaled)
    pins,               \* the values last written to the four pins
    worker,             \* self._worker: "none" or "thread"
    alive,              \* self._worker.is_alive()
    worker_keepalive,   \* self._worker_keepalive
    worker_busy,        \* self._worker_busy
    \* ---- the worker thread's frame in loop()
    wpc,                \* position of the worker in loop()
    current_delay,      \* local current_delay, scaled by AccelSteps
    delay_step,         \* local delay_step, scaled by AccelSteps
    wrem,               \* local remaining
    wi,                 \* local i of the for loop
    slept,              \* the argument of this worker's last sleep, scaled (None: none yet)
    \* ---- the caller thread
    cpc,                \* position of the caller
    cres,               \* outcome of the caller's last finished call
    waitFor,            \* the target assigned right before the wait() in progress
    observed,           \* self.steps at the moment wait() returned
    afterStop,          \* for-loop steps taken since stop() was called mid-target
                        \* (-1: the last stop() was not called mid-target)
    away,               \* steps away from a target assigned mid-move (-1: none)
    orphans,            \* live worker threads self._worker no longer refers to
    dreq,               \* the value last assigned to the delay property, scaled
    parked,             \* the last stop() found the controller parked at its target
    \* ---- WebcamMQTTPublisher fields
    state,              \* self.state: "idle", "processing" or "sorting"
    last_sort_request,  \* self.last_sort_request: None or Some(timestamp)
    last_sort_target,   \* self.last_sort_target: None or Some(category)
    clock,              \* datetime.now(), as the number of timestamps taken
    published,          \* the last payload published on /status, or None
    npublished,         \* how many payloads were published on /status, modulo 2
    \* ---- threads of the orchestrator
    hpc,                \* position of the MQTT thread and of the button thread
    kpc,                \* position of the main thread in run()'s keepalive loop
    hres,               \* what the MQTT thread or the button thread logged last
    spc,                \* position of each thread running a sort request
    scat,               \* the category each sort worker was started with
    spos,               \* the position argument of System.process_sort_request
    faulted,            \* whether a device call of the thread raised
    ops,                \* the writes each thread made for its sort request, in order
    \* ---- Gantry fields and its two TMCStepper motors
    gargs,              \* the arguments of the last Gantry(...) call (None: none)
    zero_position,      \* self._zero_position: <<ox, oy>>
    steps_per_inch,     \* self._steps_per_inch: <<l, r>>
    motor,              \* per motor: enabled, position, target, moving
    \* ---- the thread that calls the gantry
    gpc,                \* its position in run_to_position
    gxy,                \* the (x, y) of the last set_target or run_to_position
    gsteps,             \* local left, right of that call
    gres,               \* outcome of its last finished call
    gcalls,             \* the motor calls of its last enable, disable or stop
    cart,               \* the last result of _steps_to_cartesian, or None
    gcount,             \* the calls made on the gantry so far
    \* ---- the servos, Differential fields, and the thread that calls them
    angle,              \* the angle last written to each servo, in 1/TDen degree
    last_pitch,         \* Differential._last_pitch, in 1/TDen degree
    last_roll,          \* Differential._last_roll, in 1/TDen degree
    sargs,              \* the last call on the claw or end effector
    sres,               \* its outcome: "returned" or "raised"
    sflip               \* flips with every such call

stepperVars == <<steps, target, direction, delay, pins, worker, alive,
                 worker_keepalive, worker_busy, wpc, current_delay, delay_step,
                 wrem, wi, slept, cpc, cres, waitFor, observed, afterStop, away,
                 orphans, dreq, parked>>

orchVars == <<state, last_sort_request, last_sort_target, clock, published,
              npublished,
              hpc, kpc, hres, spc, scat, spos, faulted, ops>>

gantryVars == <<gargs, zero_position, steps_per_inch, motor, gpc, gxy, gsteps, gres,
                gcalls, cart, gcount>>

servoVars == <<angle, last_pitch, last_roll, sargs, sres, sflip>>

deviceVars == <<gantryVars, servoVars>>

vars == <<stepperVars, orchVars, deviceVars>>

\* Durations are kept as integers: a duration d (ms) is stored as d * AccelSteps,
\* the unit in which the real quotient (max_delay - delay) / accel_steps is whole.
Scaled(d) == d * AccelSteps

\* Durations are binary floating-point numbers: the quotient of line 148 and
\* the repeated subtractions of it are rounded, so that accel_steps decrements
\* from max_delay end exactly at delay, a little above it or a little below it,
\* depending on the constructor's arguments. The error is kept in delay_step:
\* one unit short, exact, or one unit long.
RoundingErrors == {-1, 0, 1}

\* Stepper.is_busy
is_busy == worker # "none" /\ alive /\ worker_busy

\* Stepper.__init__
StepperInit ==
    /\ steps = ResetSteps
    /\ target = None
    /\ direction = Ccw
    /\ delay = Scaled(BaseDelay)
    /\ pins = <<0, 0, 0, 0>>
    /\ worker = "none"
    /\ alive = FALSE
    /\ worker_keepalive = FALSE
    /\ worker_busy = FALSE
    /\ wpc = "none"
    /\ current_delay = 0
    /\ delay_step = 0
    /\ wrem = 0
    /\ wi = 0
    /\ slept = None
    /\ cpc = "ready"
    /\ cres = "none"
    /\ waitFor = None
    /\ observed = ResetSteps
    /\ afterStop = -1
    /\ away = -1
    /\ orphans = 0
    /\ dreq = None
    /\ parked = FALSE

\* ------------------------------------------------------------ worker thread

\* A step() that advances the position by two.
StepTwice ==
    /\ steps' = steps + direction + direction
    /\ pins' = Seq4[((steps + direction + direction) % Len(Seq4)) + 1]
    /\ UNCHANGED <<afterStop, away>>

\* A step() that indexes the sequence table by the magnitude of the position.
StepAbsIndex ==
    /\ steps' = steps + direction
    /\ pins' = Seq4[(Abs(steps + direction) % Len(Seq4)) + 1]
    /\ afterStop' = IF afterStop >= 0 /\ wpc = "for" THEN afterStop + 1 ELSE afterStop
    /\ away' = IF /\ away >= 0
                  /\ target # None
                  /\ Abs(steps + direction - target[1]) > Abs(steps - target[1])
               THEN away + 1 ELSE away

\* Stepper.step, with the bookkeeping of the steps taken after a stop() or a
\* new target that arrived in the middle of a targeted move.
StepEffect ==
    /\ steps' = steps + direction
    /\ pins' = Seq4[((steps + direction) % Len(Seq4)) + 1]
    /\ afterStop' = IF afterStop >= 0 /\ wpc = "for" THEN afterStop + 1 ELSE afterStop
    /\ away' = IF /\ away >= 0
                  /\ target # None
                  /\ Abs(steps + direction - target[1]) > Abs(steps - target[1])
               THEN away + 1 ELSE away

\* loop(), lines 147-148: the ramp is initialised once per worker; e is the
\* rounding error of the floating-point quotient.
WInit(e) ==
    /\ alive /\ wpc = "init"
    /\ current_delay' = Scaled(MaxDelay)
    /\ delay_step' = ((Scaled(MaxDelay) - delay) \div AccelSteps) + e
    /\ wpc' = "while"
    /\ UNCHANGED <<orchVars, orphans, dreq, parked, deviceVars>>
    /\ UNCHANGED <<steps, target, direction, delay, pins, worker, alive,
                   worker_keepalive, worker_busy, wrem, wi, slept, cpc, cres,
                   waitFor, observed, afterStop, away>>

\* line 150: while self._worker_keepalive; the thread ends when it is false.
WWhile ==
    /\ alive /\ wpc = "while"
    /\ IF worker_keepalive
       THEN wpc' = "if_target" /\ alive' = alive
       ELSE wpc' = "dead" /\ alive' = FALSE
    /\ UNCHANGED <<orchVars, orphans, dreq, parked, deviceVars>>
    /\ UNCHANGED <<steps, target, direction, delay, pins, worker,
                   worker_keepalive, worker_busy, current_delay, delay_step,
                   wrem, wi, slept, cpc, cres, waitFor, observed, afterStop, away>>

\* line 151: if self.target is None. Continuous mode is followed while the
\* position stays within MaxPos.
WIfTarget ==
    /\ alive /\ wpc = "if_target"
    /\ target = None => Abs(steps + direction) <= MaxPos
    /\ wpc' = IF target = None THEN "continuous" ELSE "read_target"
    /\ UNCHANGED <<orchVars, orphans, dreq, parked, deviceVars>>
    /\ UNCHANGED <<steps, target, direction, delay, pins, worker, alive,
                   worker_keepalive, worker_busy, current_delay, delay_step,
                   wrem, wi, slept, cpc, cres, waitFor, observed, afterStop, away>>

\* time.sleep(d), called by the worker: a negative d raises ValueError, which
\* nothing in loop() catches, and the thread ends.
SleepRaises(d) == d < 0

\* lines 152-160: one iteration of continuous mode.
WContinuous ==
    /\ alive /\ wpc = "continuous"
    /\ worker_busy' = TRUE
    /\ current_delay' = IF current_delay > delay
                        THEN current_delay - delay_step
                        ELSE delay
    /\ StepEffect
    /\ IF SleepRaises(current_delay')
       THEN /\ wpc' = "dead"
            /\ alive' = FALSE
            /\ slept' = slept
       ELSE /\ wpc' = "while"
            /\ alive' = alive
            /\ slept' = Some(current_delay')
    /\ UNCHANGED <<orchVars, orphans, dreq, parked, deviceVars>>
    /\ UNCHANGED <<target, direction, delay, worker, worker_keepalive,
                   delay_step, wrem, wi, cpc, cres, waitFor, observed>>

\* line 163: remaining = self.target - self.steps. With self.target None (a
\* stop() after line 151) the subtraction raises TypeError and the thread ends.
WReadTarget ==
    /\ alive /\ wpc = "read_target"
    /\ IF target = None
       THEN /\ wpc' = "dead"
            /\ alive' = FALSE
            /\ wrem' = wrem
       ELSE /\ wpc' = "check_remaining"
            /\ alive' = alive
            /\ wrem' = target[1] - steps
    /\ UNCHANGED <<orchVars, orphans, dreq, parked, deviceVars>>
    /\ UNCHANGED <<steps, target, direction, delay, pins, worker,
                   worker_keepalive, worker_busy, current_delay, delay_step,
                   wi, slept, cpc, cres, waitFor, observed, afterStop, away>>

\* lines 164-173: parked at the target, or the start of a targeted move.
WCheckRemaining ==
    /\ alive /\ wpc = "check_remaining"
    /\ IF wrem = 0
       THEN /\ worker_busy' = FALSE
            /\ slept' = Some(delay)
            /\ wpc' = "while"
            /\ UNCHANGED <<direction, wrem, wi>>
       ELSE /\ worker_busy' = TRUE
            /\ direction' = IF wrem > 0 THEN Ccw ELSE Cw
            /\ wrem' = Abs(wrem)
            /\ wi' = 0
            /\ slept' = slept
            /\ wpc' = "for"
    /\ UNCHANGED <<orchVars, orphans, dreq, parked, deviceVars>>
    /\ UNCHANGED <<steps, target, delay, pins, worker, alive, worker_keepalive,
                   current_delay, delay_step, cpc, cres, waitFor, observed,
                   afterStop, away>>

\* The delay of iteration i of the for loop, lines 176-183.
RampDelay(i, remaining, cur) ==
    LET d == IF i < AccelSteps THEN cur - delay_step
             ELSE IF i > remaining - AccelSteps THEN cur + delay_step
             ELSE delay
    IN  Max(delay, d)

\* lines 175-185: one iteration of for i in range(remaining), or its end.
WFor ==
    /\ alive /\ wpc = "for"
    /\ IF wi < wrem
       THEN /\ current_delay' = RampDelay(wi, wrem, current_delay)
            /\ StepEffect
            /\ slept' = Some(current_delay')
            /\ wi' = wi + 1
            /\ wpc' = wpc
       ELSE /\ wpc' = "while"
            /\ UNCHANGED <<current_delay, steps, pins, afterStop, away, slept, wi>>
    /\ UNCHANGED <<orchVars, orphans, dreq, parked, deviceVars>>
    /\ UNCHANGED <<target, direction, delay, worker, alive, worker_keepalive,
                   worker_busy, delay_step, wrem, cpc, cres, waitFor, observed>>

\* ------------------------------------------------------------ caller thread

\* lines 130-132: a new thread running loop() is created and started. A thread
\* that was still running goes on running, referred to by nothing.
SpawnWorker ==
    /\ worker_keepalive' = TRUE
    /\ worker' = "thread"
    /\ alive' = TRUE
    /\ wpc' = "init"
    /\ cres' = "started"
    /\ slept' = None
    /\ afterStop' = -1
    /\ orphans' = IF alive THEN orphans + 1 ELSE orphans

\* start() without its check of lines 127-128.
StartUnchecked ==
    /\ cpc = "ready"
    /\ SpawnWorker
    /\ UNCHANGED <<orchVars, deviceVars, dreq, parked>>
    /\ UNCHANGED <<steps, target, direction, delay, pins, worker_busy,
                   current_delay, delay_step, wrem, wi, cpc, waitFor,
                   observed, away>>

\* Stepper.start, lines 125-132.
Start ==
    /\ cpc = "ready"
    /\ IF worker # "none" /\ alive
       THEN /\ cres' = "already_running"
            /\ UNCHANGED <<worker, alive, worker_keepalive, wpc, slept,
                           afterStop, orphans>>
       ELSE SpawnWorker
    /\ UNCHANGED <<orchVars, deviceVars, dreq, parked>>
    /\ UNCHANGED <<steps, target, direction, delay, pins, worker_busy,
                   current_delay, delay_step, wrem, wi, cpc, waitFor,
                   observed, away>>

\* Values assigned to the delay property, in milliseconds.
DelayValues == {-BaseDelay, 0, BaseDelay, MaxDelay}

\* A delay setter without its check of lines 99-100.
SetDelayUnchecked(v) ==
    /\ cpc = "ready"
    /\ dreq' = Some(Scaled(v))
    /\ cres' = "delay_set"
    /\ delay' = Scaled(v)
    /\ UNCHANGED <<orchVars, orphans, parked, deviceVars>>
    /\ UNCHANGED <<steps, target, direction, pins, worker, alive, worker_keepalive,
                   worker_busy, wpc, current_delay, delay_step, wrem, wi, slept,
                   cpc, waitFor, observed, afterStop, away>>

\* The delay setter, lines 96-101 (stepper.delay = v).
SetDelay(v) ==
    /\ cpc = "ready"
    /\ dreq' = Some(Scaled(v))
    /\ IF v < 0
       THEN cres' = "delay_rejected" /\ delay' = delay
       ELSE cres' = "delay_set" /\ delay' = Scaled(v)
    /\ UNCHANGED <<orchVars, orphans, parked, deviceVars>>
    /\ UNCHANGED <<steps, target, direction, pins, worker, alive, worker_keepalive,
                   worker_busy, wpc, current_delay, delay_step, wrem, wi, slept,
                   cpc, waitFor, observed, afterStop, away>>

\* Assignment to the target attribute (stepper.target = t).
SetTarget(t) ==
    /\ cpc = "ready"
    /\ target' = Some(t)
    /\ cres' = "target_set"
    /\ away' = IF alive /\ wpc = "for" /\ wi < wrem /\ target # None /\ target # Some(t)
               THEN 0 ELSE -1
    /\ UNCHANGED <<orchVars, orphans, dreq, parked, deviceVars>>
    /\ UNCHANGED <<steps, direction, delay, pins, worker, alive, worker_keepalive,
                   worker_busy, wpc, current_delay, delay_step, wrem, wi, slept,
                   cpc, waitFor, observed, afterStop>>

\* Stepper.wait, line 112: the call. waitFor remembers the target when the
\* call directly follows its assignment on a running controller.
WaitCall ==
    /\ cpc = "ready"
    /\ cpc' = "wait"
    /\ waitFor' = IF cres = "target_set" /\ worker # "none" /\ alive
                  THEN target ELSE None
    /\ UNCHANGED <<orchVars, orphans, dreq, parked, deviceVars>>
    /\ UNCHANGED <<steps, target, direction, delay, pins, worker, alive,
                   worker_keepalive, worker_busy, wpc, current_delay, delay_step,
                   wrem, wi, slept, cres, observed, afterStop, away>>

\* Stepper.wait, lines 114-115: the loop ends when is_busy is false.
WaitReturn ==
    /\ cpc = "wait"
    /\ ~is_busy
    /\ cpc' = "ready"
    /\ cres' = "wait_done"
    /\ observed' = steps
    /\ UNCHANGED <<orchVars, orphans, dreq, parked, deviceVars>>
    /\ UNCHANGED <<steps, target, direction, delay, pins, worker, alive,
                   worker_keepalive, worker_busy, wpc, current_delay, delay_step,
                   wrem, wi, slept, waitFor, afterStop, away>>

\* Stepper.stop, lines 136-139: the not-running check and self.target = None.
StopBegin ==
    /\ cpc = "ready"
    /\ IF worker = "none" \/ ~alive
       THEN /\ cres' = "not_running"
            /\ UNCHANGED <<target, cpc, afterStop, away, parked>>
       ELSE /\ target' = None
            /\ cpc' = "stop_keepalive"
            /\ cres' = "stopping"
            /\ parked' = (target = Some(steps) /\ ~is_busy)
            /\ afterStop' = IF wpc = "for" /\ wi < wrem THEN 0 ELSE -1
            /\ away' = -1
    /\ UNCHANGED <<orchVars, orphans, dreq, deviceVars>>
    /\ UNCHANGED <<steps, direction, delay, pins, worker, alive, worker_keepalive,
                   worker_busy, wpc, current_delay, delay_step, wrem, wi, slept,
                   waitFor, observed>>

\* line 140: self._worker_keepalive = False
StopKeepalive ==
    /\ cpc = "stop_keepalive"
    /\ worker_keepalive' = FALSE
    /\ cpc' = "stop_join"
    /\ UNCHANGED <<orchVars, orphans, dreq, parked, deviceVars>>
    /\ UNCHANGED <<steps, target, direction, delay, pins, worker, alive,
                   worker_busy, wpc, current_delay, delay_step, wrem, wi, slept,
                   cres, waitFor, observed, afterStop, away>>

\* stop() without the join: it goes on while the worker is still running.
StopJoinNoWait ==
    /\ cpc = "stop_join"
    /\ cpc' = "stop_reset"
    /\ UNCHANGED <<orchVars, orphans, dreq, parked, deviceVars>>
    /\ UNCHANGED <<steps, target, direction, delay, pins, worker, alive,
                   worker_keepalive, worker_busy, wpc, current_delay, delay_step,
                   wrem, wi, slept, cres, waitFor, observed, afterStop, away>>

\* line 141: self._worker.join() returns once the thread has ended.
StopJoin ==
    /\ cpc = "stop_join"
    /\ ~alive
    /\ cpc' = "stop_reset"
    /\ UNCHANGED <<orchVars, orphans, dreq, parked, deviceVars>>
    /\ UNCHANGED <<steps, target, direction, delay, pins, worker, alive,
                   worker_keepalive, worker_busy, wpc, current_delay, delay_step,
                   wrem, wi, slept, cres, waitFor, observed, afterStop, away>>

\* lines 142-143: self._worker = None; self.steps = -1
StopReset ==
    /\ cpc = "stop_reset"
    /\ worker' = "none"
    /\ steps' = ResetSteps
    /\ cpc' = "ready"
    /\ cres' = "stopped"
    /\ UNCHANGED <<orchVars, orphans, dreq, parked, deviceVars>>
    /\ UNCHANGED <<target, direction, delay, pins, alive, worker_keepalive,
                   worker_busy, wpc, current_delay, delay_step, wrem, wi, slept,
                   waitFor, observed, afterStop, away>>

WorkerNext ==
    \/ \E e \in RoundingErrors : WInit(e)
    \/ WWhile
    \/ WIfTarget
    \/ WContinuous
    \/ WReadTarget
    \/ WCheckRemaining
    \/ WFor

CallerNext ==
    \/ Start
    \/ \E t \in Targets : SetTarget(t)
    \/ WaitCall
    \/ WaitReturn
    \/ StopBegin
    \/ StopKeepalive
    \/ StopJoin
    \/ StopReset

\* ================================================== orchestrator (main.py)

\* WebcamMQTTPublisher.__init__, lines 110-112, with no thread started yet.
OrchInit ==
    /\ state = "idle"
    /\ last_sort_request = None
    /\ last_sort_target = None
    /\ clock = 0
    /\ published = None
    /\ npublished = 0
    /\ hpc = [h \in Handlers |-> "idle"]
    /\ kpc = "sleep"
    /\ hres = "none"
    /\ spc = [e \in Executors |-> "unborn"]
    /\ scat = [e \in Executors |-> None]
    /\ spos = [e \in Executors |-> None]
    /\ faulted = [e \in Executors |-> FALSE]
    /\ ops = [e \in Executors |-> <<>>]

\* SystemState.to_status_name
to_status_name(st) == IF st = "idle" THEN "online" ELSE st

\* _status_to_dict, lines 240-248
status_to_dict ==
    [status    |-> to_status_name(state),
     last_sort |-> last_sort_request,
     target_id |-> IF last_sort_target # None /\ state = "sorting"
                   THEN Some(last_sort_target[1].id) ELSE None]

\* update_status, lines 250-265: the payload handed to publish('/status', ...)
update_status ==
    /\ published' = Some(status_to_dict)
    /\ npublished' = (npublished + 1) % 2

\* A write of a sort request: to which device, what.
Op(dev, what, arg) == [dev |-> dev, op |-> what, arg |-> arg]

\* The log of writes after thread e made one more.
Logged(e, o) == [ops EXCEPT ![e] = Append(@, o)]

\* A thread that ends: by returning, or by an exception nothing catches.
InFlight(e) == spc[e] \notin {"unborn", "dead"}

\* ---- the MQTT thread and the button thread

\* process_image and publish_image, lines 182-205, up to line 229: the capture
\* yields an image or not, the publish returns a code or raises; only a
\* captured and successfully published image reaches set_processing, whose
\* first statement is self.state = SystemState.processing. What process_image
\* logs: no image (line 205), a failed publish (lines 192, 196), or success.
ImageOutcome(captured, sent) ==
    IF ~captured THEN "no_image"
    ELSE IF ~sent THEN "publish_failed"
    ELSE "published"

\* process_image calling set_processing whatever the capture and the publish
\* gave.
ProcessImageAlways(h, captured, sent) ==
    /\ hpc[h] = "idle"
    /\ clock + Cardinality({g \in Handlers : hpc[g] # "idle"}) < MaxCaptures
    /\ hres' = ImageOutcome(captured, sent)
    /\ state' = "processing"
    /\ hpc' = [hpc EXCEPT ![h] = "set_processing_request"]
    /\ UNCHANGED <<stepperVars, deviceVars, kpc>>
    /\ UNCHANGED <<last_sort_request, last_sort_target, clock, published, npublished, spc,
                   scat, spos, faulted, ops>>

\* process_image and publish_image on thread h.
ProcessImage(h, captured, sent) ==
    /\ hpc[h] = "idle"
    /\ clock + Cardinality({g \in Handlers : hpc[g] # "idle"}) < MaxCaptures
    /\ hres' = ImageOutcome(captured, sent)
    /\ IF captured /\ sent
       THEN /\ state' = "processing"
            /\ hpc' = [hpc EXCEPT ![h] = "set_processing_request"]
       ELSE UNCHANGED <<state, hpc>>
    /\ UNCHANGED <<stepperVars, deviceVars, kpc>>
    /\ UNCHANGED <<last_sort_request, last_sort_target, clock, published, npublished, spc,
                   scat, spos, faulted, ops>>

\* set_processing, line 230: self.last_sort_request = datetime.datetime.now()
SetProcessingRequest(h) ==
    /\ hpc[h] = "set_processing_request"
    /\ clock' = clock + 1
    /\ last_sort_request' = Some(clock + 1)
    /\ hpc' = [hpc EXCEPT ![h] = "set_processing_status"]
    /\ UNCHANGED <<stepperVars, deviceVars, kpc, hres>>
    /\ UNCHANGED <<state, last_sort_target, published, npublished, spc, scat, spos, faulted,
                   ops>>

\* set_processing, line 232: self.update_status(); the handler then returns.
SetProcessingStatus(h) ==
    /\ hpc[h] = "set_processing_status"
    /\ update_status
    /\ hpc' = [hpc EXCEPT ![h] = "idle"]
    /\ UNCHANGED <<stepperVars, deviceVars, kpc, hres>>
    /\ UNCHANGED <<state, last_sort_request, last_sort_target, clock, spc, scat,
                   spos, faulted, ops>>

\* on_mqtt_message handling a message on /error/categorization by giving up
\* the request in progress: back to idle, with a status publish.
OnCategorizationErrorResets ==
    /\ hpc["mqtt"] = "idle"
    /\ hres' = "error_logged"
    /\ state' = "idle"
    /\ update_status
    /\ UNCHANGED <<stepperVars, deviceVars, kpc>>
    /\ UNCHANGED <<last_sort_request, last_sort_target, clock, hpc, spc, scat,
                   spos, faulted, ops>>

\* on_mqtt_message, lines 157-163: a message on /error/categorization is logged.
OnCategorizationError ==
    /\ hpc["mqtt"] = "idle"
    /\ hres' = "error_logged"
    /\ UNCHANGED <<stepperVars, deviceVars, kpc>>
    /\ UNCHANGED <<state, last_sort_request, last_sort_target, clock, published,
                   npublished, hpc, spc, scat, spos, faulted, ops>>

\* on_mqtt_message calling process_sort_request itself instead of starting a
\* thread for it: the MQTT thread is inside the sort request from then on.
OnCategorizationInline(c) ==
    /\ hpc["mqtt"] = "idle"
    /\ \E w \in SortWorkers :
          /\ spc[w] = "unborn"
          /\ \A v \in SortWorkers : v < w => spc[v] # "unborn"
          /\ spc' = [spc EXCEPT ![w] = "set_sorting_state"]
          /\ scat' = [scat EXCEPT ![w] = Some(c)]
    /\ hpc' = [hpc EXCEPT !["mqtt"] = "process_sort_request"]
    /\ UNCHANGED <<stepperVars, deviceVars, kpc, hres>>
    /\ UNCHANGED <<state, last_sort_request, last_sort_target, clock, published, npublished,
                   spos, faulted, ops>>

\* on_mqtt_message, lines 174-176: a categorization result starts a new thread
\* running process_sort_request(response.category).
OnCategorization(c) ==
    /\ hpc["mqtt"] = "idle"
    /\ \E w \in SortWorkers :
          /\ spc[w] = "unborn"
          /\ \A v \in SortWorkers : v < w => spc[v] # "unborn"
          /\ spc' = [spc EXCEPT ![w] = "set_sorting_state"]
          /\ scat' = [scat EXCEPT ![w] = Some(c)]
    /\ UNCHANGED <<stepperVars, deviceVars, kpc, hres>>
    /\ UNCHANGED <<state, last_sort_request, last_sort_target, clock, published, npublished,
                   hpc, spos, faulted, ops>>

\* ---- the main thread: the keepalive loop of run(), lines 286-291

\* lines 287-289: the keepalive is due (remaining <= 0.0). An iteration that
\* finds it not due only sleeps.
KeepaliveDue ==
    /\ kpc = "sleep"
    /\ kpc' = "update_status"
    /\ UNCHANGED <<stepperVars, deviceVars, hres>>
    /\ UNCHANGED <<state, last_sort_request, last_sort_target, clock, published,
                   npublished, hpc, spc, scat, spos, faulted, ops>>

\* line 290: self.update_status(); line 291: the thread sleeps.
KeepaliveStatus ==
    /\ kpc = "update_status"
    /\ update_status
    /\ kpc' = "sleep"
    /\ UNCHANGED <<stepperVars, deviceVars, hres>>
    /\ UNCHANGED <<state, last_sort_request, last_sort_target, clock, hpc, spc,
                   scat, spos, faulted, ops>>

\* ---- a sort worker: WebcamMQTTPublisher.process_sort_request

\* set_sorting, line 235: self.state = SystemState.sorting
SetSortingState(w) ==
    /\ spc[w] = "set_sorting_state"
    /\ state' = "sorting"
    /\ spc' = [spc EXCEPT ![w] = "set_sorting_target"]
    /\ UNCHANGED <<stepperVars, deviceVars, kpc, hres>>
    /\ UNCHANGED <<last_sort_request, last_sort_target, clock, published, npublished, hpc,
                   scat, spos, faulted, ops>>

\* set_sorting, line 236: self.last_sort_target = target
SetSortingTarget(w) ==
    /\ spc[w] = "set_sorting_target"
    /\ last_sort_target' = scat[w]
    /\ spc' = [spc EXCEPT ![w] = "set_sorting_status"]
    /\ UNCHANGED <<stepperVars, deviceVars, kpc, hres>>
    /\ UNCHANGED <<state, last_sort_request, clock, published, npublished, hpc, scat, spos,
                   faulted, ops>>

\* set_sorting, line 238: self.update_status()
SetSortingStatus(w) ==
    /\ spc[w] = "set_sorting_status"
    /\ update_status
    /\ spc' = [spc EXCEPT ![w] = "display_clear"]
    /\ UNCHANGED <<stepperVars, deviceVars, kpc, hres>>
    /\ UNCHANGED <<state, last_sort_request, last_sort_target, clock, hpc, scat,
                   spos, faulted, ops>>

\* The three display calls of lines 209-211, in order.
DisplayCalls == <<"display_clear", "display_write_top", "display_write_bottom">>
DisplayNext(pc) ==
    IF pc = "display_clear" THEN "display_write_top"
    ELSE IF pc = "display_write_top" THEN "display_write_bottom"
    ELSE "call_system"

\* One display call: it writes to the display, or it raises; nothing in
\* process_sort_request or in the thread catches, so the thread ends there.
SortDisplay(w, ok) ==
    /\ spc[w] \in {DisplayCalls[i] : i \in 1..Len(DisplayCalls)}
    /\ IF ok
       THEN /\ ops' = Logged(w, Op("display", spc[w], None))
            /\ spc' = [spc EXCEPT ![w] = DisplayNext(spc[w])]
            /\ UNCHANGED faulted
       ELSE /\ spc' = [spc EXCEPT ![w] = "dead"]
            /\ faulted' = [faulted EXCEPT ![w] = TRUE]
            /\ UNCHANGED ops
    /\ UNCHANGED <<stepperVars, deviceVars, kpc, hres>>
    /\ UNCHANGED <<state, last_sort_request, last_sort_target, clock, published, npublished,
                   hpc, scat, spos>>

\* lines 214-215: pos = target.x, GANTRY_HEIGHT - target.y
SortPos(c) == <<c.x, GANTRY_HEIGHT - c.y>>

\* The positional arguments of self.system.process_sort_request(*pos): the
\* tuple is unpacked, one argument per element.
SortCallArgs(c) == SortPos(c)

\* line 218: the call binds Len(args) positional arguments to the parameters
\* System.process_sort_request declares after self; a different number raises
\* TypeError before the body runs, and the thread ends.
SortCallSystem(w) ==
    /\ spc[w] = "call_system"
    /\ LET args == SortCallArgs(scat[w][1]) IN
       IF Len(args) = SystemProcessSortRequestParams
       THEN /\ spc' = [spc EXCEPT ![w] = "sys_claw_open"]
            /\ spos' = [spos EXCEPT ![w] = Some(args[1])]
       ELSE /\ spc' = [spc EXCEPT ![w] = "dead"]
            /\ UNCHANGED spos
    /\ UNCHANGED <<stepperVars, deviceVars, kpc, hres>>
    /\ UNCHANGED <<state, last_sort_request, last_sort_target, clock, published, npublished,
                   hpc, scat, faulted, ops>>

\* line 220 and set_idle, line 224: self.state = SystemState.idle
SetIdleState(w) ==
    /\ spc[w] = "set_idle_state"
    /\ w \in SortWorkers
    /\ state' = "idle"
    /\ ops' = Logged(w, Op("state", "set_idle", None))
    /\ spc' = [spc EXCEPT ![w] = "set_idle_status"]
    /\ UNCHANGED <<stepperVars, deviceVars, kpc, hres>>
    /\ UNCHANGED <<last_sort_request, last_sort_target, clock, published, npublished, hpc,
                   scat, spos, faulted>>

\* set_idle, line 226: self.update_status()
SetIdleStatus(w) ==
    /\ spc[w] = "set_idle_status"
    /\ update_status
    /\ spc' = [spc EXCEPT ![w] = "gantry_origin"]
    /\ UNCHANGED <<stepperVars, deviceVars, kpc, hres>>
    /\ UNCHANGED <<state, last_sort_request, last_sort_target, clock, hpc, scat,
                   spos, faulted, ops>>

\* line 221: self.system.gantry.set_target(0, 0), which does not block; the
\* thread then returns.
SortGantryOrigin(w, ok) ==
    /\ spc[w] = "gantry_origin"
    /\ spc' = [spc EXCEPT ![w] = "dead"]
    /\ IF ok
       THEN /\ ops' = Logged(w, Op("gantry", "set_target", <<0, 0>>))
            /\ UNCHANGED faulted
       ELSE /\ faulted' = [faulted EXCEPT ![w] = TRUE]
            /\ UNCHANGED ops
    /\ UNCHANGED <<stepperVars, deviceVars, kpc, hres>>
    /\ UNCHANGED <<state, last_sort_request, last_sort_target, clock, published, npublished,
                   hpc, scat, spos>>

\* ---- System.process_sort_request (subsystems/__init__.py, lines 37-43)

\* The five calls of the body, in order: where the thread is, the device, the
\* call and its argument. run_to_position blocks until the move is finished.
SysCall(e) ==
    CASE spc[e] = "sys_claw_open"     -> Op("claw", "open", None)
      [] spc[e] = "sys_ee_reset"      -> Op("end_effector", "reset", None)
      [] spc[e] = "sys_gantry_grab"   -> Op("gantry", "run_to_position", GrabPosition)
      [] spc[e] = "sys_claw_close"    -> Op("claw", "close", None)
      [] spc[e] = "sys_gantry_target" -> Op("gantry", "run_to_position", spos[e][1])

SysNext(e) ==
    CASE spc[e] = "sys_claw_open"     -> "sys_ee_reset"
      [] spc[e] = "sys_ee_reset"      -> "sys_gantry_grab"
      [] spc[e] = "sys_gantry_grab"   -> "sys_claw_close"
      [] spc[e] = "sys_claw_close"    -> "sys_gantry_target"
      [] spc[e] = "sys_gantry_target" ->
            IF e \in SortWorkers THEN "set_idle_state" ELSE "returned"

SysPcs == {"sys_claw_open", "sys_ee_reset", "sys_gantry_grab", "sys_claw_close",
           "sys_gantry_target"}

\* One call of the body: it completes, or the device raises and the exception
\* leaves process_sort_request.
SystemStep(e, ok) ==
    /\ spc[e] \in SysPcs
    /\ IF ok
       THEN /\ ops' = Logged(e, SysCall(e))
            /\ spc' = [spc EXCEPT ![e] = SysNext(e)]
            /\ UNCHANGED faulted
       ELSE /\ spc' = [spc EXCEPT ![e] = "dead"]
            /\ faulted' = [faulted EXCEPT ![e] = TRUE]
            /\ UNCHANGED ops
    /\ UNCHANGED <<stepperVars, deviceVars, kpc, hres>>
    /\ UNCHANGED <<state, last_sort_request, last_sort_target, clock, published, npublished,
                   hpc, scat, spos>>

\* A caller that passes System.process_sort_request its one position argument.
DirectSortRequest(pos) ==
    /\ spc[DirectCaller] \in {"unborn", "returned", "dead"}
    /\ Len(ops[DirectCaller]) + Cardinality(SysPcs) <= MaxDirectOps
    /\ spc' = [spc EXCEPT ![DirectCaller] = "sys_claw_open"]
    /\ spos' = [spos EXCEPT ![DirectCaller] = Some(pos)]
    /\ faulted' = [faulted EXCEPT ![DirectCaller] = FALSE]
    /\ UNCHANGED <<stepperVars, deviceVars, kpc, hres>>
    /\ UNCHANGED <<state, last_sort_request, last_sort_target, clock, published, npublished,
                   hpc, scat, ops>>


\* ============================================ gantry (subsystems/gantry.py)

Motors == {"left", "right"}

\* Python's round() of the rational n / d, d > 0: to the nearest integer, a tie
\* to the even one.
Round(n, d) ==
    LET q == n \div d
        m == n % d
    IN  IF 2 * m < d THEN q
        ELSE IF 2 * m > d THEN q + 1
        ELSE IF q % 2 = 0 THEN q ELSE q + 1

\* Gantry._cartesian_to_steps, lines 72-76; x and y are numerators over CartDen.
cartesian_to_steps(x, y) ==
    LET ox == zero_position[1]
        oy == zero_position[2]
        dx == x - ox * CartDen
        dy == y - oy * CartDen
        l  == steps_per_inch[1]
        r  == steps_per_inch[2]
    IN  << Round(l * (dy - dx), CartDen), Round(r * (dy + dx), CartDen) >>

\* Gantry._steps_to_cartesian, lines 78-82: x / l + ox and y / r + oy with
\* x = (right - left) / 2 and y = (left + right) / 2, each as the rational
\* <<numerator, denominator>>.
steps_to_cartesian(left, right) ==
    LET ox == zero_position[1]
        oy == zero_position[2]
        l  == steps_per_inch[1]
        r  == steps_per_inch[2]
    IN  << << (right - left) + 2 * l * ox, 2 * l >>,
           << (left + right) + 2 * r * oy, 2 * r >> >>

\* A constructed Gantry with zero offset z and steps-per-inch pair s, its motors
\* enabled (TMCStepper.__init__, line 62) and at rest at step 0.
GantryConstructed(z, s) ==
    /\ gargs = None
    /\ zero_position = z
    /\ steps_per_inch = s
    /\ motor = [m \in Motors |->
                  [enabled |-> TRUE, position |-> 0, target |-> 0, moving |-> FALSE]]
    /\ gpc = "idle"
    /\ gxy = None
    /\ gsteps = None
    /\ gres = "none"
    /\ gcalls = <<>>
    /\ cart = None
    /\ gcount = 0

Carts == 0..MaxCart

\* The motion of a motor, run by the TMC driver, reaches its target.
MotorArrive(m) ==
    /\ motor[m].moving
    /\ motor' = [motor EXCEPT ![m].position = motor[m].target, ![m].moving = FALSE]
    /\ UNCHANGED <<stepperVars, orchVars, servoVars>>
    /\ UNCHANGED <<gargs, zero_position, steps_per_inch, gpc, gxy, gsteps, gres, gcalls,
                   cart, gcount>>

\* A call on the gantry begins.
GantryCall ==
    /\ gpc = "idle"
    /\ gcount < MaxGantryCalls
    /\ gcount' = gcount + 1

\* The motor m starts an absolute move to t (run_to_position_steps, and
\* run_to_position_steps_threaded behind the target setter).
MoveTo(mot, m, t) ==
    [mot EXCEPT ![m].target = t, ![m].moving = (mot[m].position # t)]

\* Gantry.set_target, lines 89-101: both targets are assigned, nothing blocks.
GantrySetTarget(x, y) ==
    /\ GantryCall
    /\ LET st == cartesian_to_steps(x, y) IN
          /\ gsteps' = Some(st)
          /\ motor' = MoveTo(MoveTo(motor, "left", st[1]), "right", st[2])
    /\ gxy' = Some(<<x, y>>)
    /\ gres' = "target_set"
    /\ cart' = None
    /\ gcalls' = <<>>
    /\ UNCHANGED <<stepperVars, orchVars, servoVars>>
    /\ UNCHANGED <<gargs, zero_position, steps_per_inch, gpc>>

\* Gantry.run_to_position, lines 113-114: the targets are computed and
\* self._left.run_to_position(left) is called, which blocks.
GantryRunToPosition(x, y) ==
    /\ GantryCall
    /\ LET st == cartesian_to_steps(x, y) IN
          /\ gsteps' = Some(st)
          /\ motor' = MoveTo(motor, "left", st[1])
    /\ gxy' = Some(<<x, y>>)
    /\ gpc' = "run_left"
    /\ gres' = "running"
    /\ cart' = None
    /\ gcalls' = <<>>
    /\ UNCHANGED <<stepperVars, orchVars, servoVars>>
    /\ UNCHANGED <<gargs, zero_position, steps_per_inch>>

\* line 115: the left call has returned, its move being finished;
\* self._right.run_to_position(right) is called, which blocks.
GantryRunRight ==
    /\ gpc = "run_left"
    /\ ~motor["left"].moving
    /\ motor' = MoveTo(motor, "right", gsteps[1][2])
    /\ gpc' = "run_right"
    /\ UNCHANGED <<stepperVars, orchVars, servoVars>>
    /\ UNCHANGED <<gargs, zero_position, steps_per_inch, gxy, gsteps, gres, gcalls, cart,
                   gcount>>

\* The right call has returned, and run_to_position with it.
GantryRunReturn ==
    /\ gpc = "run_right"
    /\ ~motor["right"].moving
    /\ gpc' = "idle"
    /\ gres' = "position_reached"
    /\ UNCHANGED <<stepperVars, orchVars, servoVars>>
    /\ UNCHANGED <<gargs, zero_position, steps_per_inch, motor, gxy, gsteps, gcalls, cart,
                   gcount>>

\* TMCStepper.enable, disable and stop, when the driver call succeeds.
MotorCall(mot, m, what) ==
    CASE what = "enable"  -> [mot EXCEPT ![m].enabled = TRUE]
      [] what = "disable" -> [mot EXCEPT ![m].enabled = FALSE]
      [] what = "stop"    -> [mot EXCEPT ![m].moving = FALSE]

FanOuts == {"enable", "disable", "stop"}

\* Gantry.enable, disable and stop, lines 57-70: the call on the left motor,
\* then the call on the right motor, no exception handled. okL and okR say
\* whether the driver call of each motor succeeds or raises.
GantryFanOut(what, okL, okR) ==
    /\ GantryCall
    /\ IF ~okL
       THEN /\ gcalls' = << <<"left", what, FALSE>> >>
            /\ gres' = "raised"
            /\ UNCHANGED motor
       ELSE IF ~okR
       THEN /\ gcalls' = << <<"left", what, TRUE>>, <<"right", what, FALSE>> >>
            /\ gres' = "raised"
            /\ motor' = MotorCall(motor, "left", what)
       ELSE /\ gcalls' = << <<"left", what, TRUE>>, <<"right", what, TRUE>> >>
            /\ gres' = "returned"
            /\ motor' = MotorCall(MotorCall(motor, "left", what), "right", what)
    /\ UNCHANGED <<stepperVars, orchVars, servoVars>>
    /\ UNCHANGED <<gargs, zero_position, steps_per_inch, gpc, gxy, gsteps, cart>>

\* The motor calls of one fan-out, as GantryFanOut logs them, and the motors
\* after it; ok = <<okL, okR>>.
FanOutCalls(what, ok) ==
    IF ~ok[1] THEN << <<"left", what, FALSE>> >>
    ELSE << <<"left", what, TRUE>>, <<"right", what, ok[2]>> >>

FanOutMotor(mot, what, ok) ==
    IF ~ok[1] THEN mot
    ELSE IF ~ok[2] THEN MotorCall(mot, "left", what)
    ELSE MotorCall(MotorCall(mot, "left", what), "right", what)

\* A release() that homes the gantry before stopping it: both motors get the
\* target 0.
SystemReleaseHomes(okStop, okDisable) ==
    /\ GantryCall
    /\ LET homed == MoveTo(MoveTo(motor, "left", 0), "right", 0) IN
       IF okStop = <<TRUE, TRUE>>
       THEN /\ gcalls' = FanOutCalls("stop", okStop) \o
                             FanOutCalls("disable", okDisable)
            /\ motor' = FanOutMotor(FanOutMotor(homed, "stop", okStop),
                                    "disable", okDisable)
            /\ gres' = IF okDisable = <<TRUE, TRUE>>
                       THEN "released" ELSE "release_raised"
       ELSE /\ gcalls' = FanOutCalls("stop", okStop)
            /\ motor' = FanOutMotor(homed, "stop", okStop)
            /\ gres' = "release_raised"
    /\ UNCHANGED <<stepperVars, orchVars, servoVars>>
    /\ UNCHANGED <<gargs, zero_position, steps_per_inch, gpc, gxy, gsteps, cart>>

\* System.release, subsystems/__init__.py lines 32-35: self.gantry.stop(), then
\* self.gantry.disable(); an exception of the first leaves release() before
\* the second.
SystemRelease(okStop, okDisable) ==
    /\ GantryCall
    /\ IF okStop = <<TRUE, TRUE>>
       THEN /\ gcalls' = FanOutCalls("stop", okStop) \o
                             FanOutCalls("disable", okDisable)
            /\ motor' = FanOutMotor(FanOutMotor(motor, "stop", okStop),
                                    "disable", okDisable)
            /\ gres' = IF okDisable = <<TRUE, TRUE>>
                       THEN "released" ELSE "release_raised"
       ELSE /\ gcalls' = FanOutCalls("stop", okStop)
            /\ motor' = FanOutMotor(motor, "stop", okStop)
            /\ gres' = "release_raised"
    /\ UNCHANGED <<stepperVars, orchVars, servoVars>>
    /\ UNCHANGED <<gargs, zero_position, steps_per_inch, gpc, gxy, gsteps, cart>>

\* _steps_to_cartesian applied to the steps computed for the last (x, y).
GantryStepsToCartesian ==
    /\ gpc = "idle"
    /\ gsteps # None
    /\ cart' = Some(steps_to_cartesian(gsteps[1][1], gsteps[1][2]))
    /\ UNCHANGED <<stepperVars, orchVars, servoVars>>
    /\ UNCHANGED <<gargs, zero_position, steps_per_inch, motor, gpc, gxy, gsteps, gres,
                   gcalls, gcount>>

\* A slot of the Gantry object (__slots__, line 28) that no statement has
\* assigned yet: reading it raises AttributeError.
Unassigned == <<>>

\* Gantry.__init__, lines 39-45, called with position P (numerators over
\* CartDen) and with motors for which revolutions_per_inch *
\* steps_per_revolution is s. Line 41 calls self._cartesian_to_steps(*position),
\* which reads self._zero_position (line 73) and self._steps_per_inch (line
\* 75); its result is assigned to _zero_position, and lines 42-45 assign
\* _steps_per_inch. An AttributeError leaves the constructor: no Gantry exists.
GantryInit(P, s) ==
    /\ gpc = "unconstructed"
    /\ gcount < MaxGantryCalls
    /\ gcount' = gcount + 1
    /\ gargs' = Some([position |-> P, steps_per_inch |-> s])
    /\ IF zero_position = Unassigned \/ steps_per_inch = Unassigned
       THEN /\ gres' = "attribute_error"
            /\ UNCHANGED <<zero_position, steps_per_inch, gpc>>
       ELSE /\ zero_position' = cartesian_to_steps(P[1], P[2])
            /\ steps_per_inch' = s
            /\ gpc' = "idle"
            /\ gres' = "constructed"
    /\ UNCHANGED <<stepperVars, orchVars, servoVars>>
    /\ UNCHANGED <<motor, gxy, gsteps, gcalls, cart>>


\* ================= claw and end effector (subsystems/claw.py, end_effector.py)

\* The servos of config.py: channels 0, 1 (differential), 2 (yaw), 4, 3 (claw).
Servos == {"diff_left", "diff_right", "yaw", "grip", "support"}

\* Angles are kept as integers: d degrees is stored as d * TDen.
Deg(d) == d * TDen

\* Differential._neutral and EndEffector._yaw_neutral, read from the servos at
\* construction.
Neutral == << Deg(NeutralAngle), Deg(NeutralAngle) >>
YawNeutral == Deg(NeutralAngle)

\* The constructed claw and end effector; no angle was written yet to the
\* claw's servos.
ServoInit ==
    /\ angle = [s \in Servos |-> IF s \in {"grip", "support"} THEN None
                                  ELSE Some(Deg(NeutralAngle))]
    /\ last_pitch = 0
    /\ last_roll = 0
    /\ sargs = None
    /\ sres = "none"
    /\ sflip = FALSE

\* Every call on the claw or the end effector records what was called, and the
\* pitch, roll and servo angles it found.
ServoCall(what, args) ==
    /\ sargs' = Some([op |-> what, args |-> args,
                      found |-> [pitch |-> last_pitch, roll |-> last_roll,
                                 angle |-> angle]])
    /\ sflip' = ~sflip
    /\ UNCHANGED <<stepperVars, orchVars, gantryVars>>

\* Optional arguments: None, or a present command.
EEValues == {Deg(0), Deg(MaxAngle)}
OptAngle == {None} \cup {Some(v) : v \in EEValues}
OptT == {None} \cup {Some(t) : t \in 0..TDen}

\* The local pitch and roll of Differential.set after lines 34-35: roll is
\* replaced by self._last_roll when the local pitch, already replaced, is None.
DiffPitch(pitch) == IF pitch # None THEN pitch ELSE Some(last_pitch)
DiffRoll(pitch, roll) ==
    IF DiffPitch(pitch) # None THEN roll ELSE Some(last_roll)

\* lines 37-38: the angles written to the left and the right servo.
DifferentialAngles(p, r) == << Neutral[1] + p - r, Neutral[2] + p - r >>

\* Differential.set, lines 32-40, on the angles ang: the new angles, last_pitch
\* and last_roll; l + pitch - roll raises TypeError when roll is None, before
\* anything is written.
DifferentialSetRaises(pitch, roll) == DiffRoll(pitch, roll) = None

DifferentialSet(ang, pitch, roll) ==
    LET p == DiffPitch(pitch)[1]
        r == DiffRoll(pitch, roll)[1]
        a == DifferentialAngles(p, r)
    IN  [angle |-> [ang EXCEPT !["diff_left"] = Some(a[1]),
                               !["diff_right"] = Some(a[2])],
         pitch |-> p,
         roll  |-> r]

\* EndEffector.set, lines 88-93.
EndEffectorSet(pitch, roll, yaw) ==
    /\ ServoCall("ee_set", <<pitch, roll, yaw>>)
    /\ IF (pitch # None \/ roll # None) /\ DifferentialSetRaises(pitch, roll)
       THEN /\ sres' = "raised"
            /\ UNCHANGED <<angle, last_pitch, last_roll>>
       ELSE LET d == IF pitch # None \/ roll # None
                     THEN DifferentialSet(angle, pitch, roll)
                     ELSE [angle |-> angle, pitch |-> last_pitch, roll |-> last_roll]
            IN  /\ angle' = IF yaw # None
                            THEN [d.angle EXCEPT !["yaw"] = Some(YawNeutral + yaw[1])]
                            ELSE d.angle
                /\ last_pitch' = d.pitch
                /\ last_roll' = d.roll
                /\ sres' = "returned"

\* A reset() that moves the servos back and keeps the last pitch and roll.
EndEffectorResetKeepsLast ==
    /\ ServoCall("ee_reset", <<>>)
    /\ angle' = [angle EXCEPT !["diff_left"] = Some(Neutral[1]),
                              !["diff_right"] = Some(Neutral[2]),
                              !["yaw"] = Some(YawNeutral)]
    /\ sres' = "returned"
    /\ UNCHANGED <<last_pitch, last_roll>>

\* EndEffector.reset, lines 95-98, with Differential.reset, lines 42-46.
EndEffectorReset ==
    /\ ServoCall("ee_reset", <<>>)
    /\ angle' = [angle EXCEPT !["diff_left"] = Some(Neutral[1]),
                              !["diff_right"] = Some(Neutral[2]),
                              !["yaw"] = Some(YawNeutral)]
    /\ last_pitch' = 0
    /\ last_roll' = 0
    /\ sres' = "returned"

\* A yaw setter that goes through a full set(pitch=0, roll=0, yaw=v).
EndEffectorYawSetsAll(v) ==
    /\ ServoCall("ee_yaw", <<v>>)
    /\ angle' = [DifferentialSet(angle, Some(0), Some(0)).angle
                    EXCEPT !["yaw"] = Some(YawNeutral + v)]
    /\ last_pitch' = 0
    /\ last_roll' = 0
    /\ sres' = "returned"

\* The yaw setter, lines 125-128.
EndEffectorYaw(v) ==
    /\ ServoCall("ee_yaw", <<v>>)
    /\ angle' = [angle EXCEPT !["yaw"] = Some(YawNeutral + v)]
    /\ sres' = "returned"
    /\ UNCHANGED <<last_pitch, last_roll>>

\* interpolate, lines 6-7, with t a numerator over TDen and the result in
\* 1/TDen degree.
interpolate(t, lo, hi) == Deg(lo) + (hi - lo) * t

\* Claw._grip_range and Claw._support_range, lines 34 and 37: (open, closed).
GripRange == <<GripOpen, GripClosed>>
SupportRange == <<SupportOpen, SupportClosed>>

\* Claw.set, lines 49-54, with _set_grip and _set_support, on the angles ang.
ClawSetAngles(ang, grip, support) ==
    LET a1 == IF grip # None
              THEN [ang EXCEPT !["grip"] =
                        Some(interpolate(grip[1], GripRange[1], GripRange[2]))]
              ELSE ang
    IN  IF support # None
        THEN [a1 EXCEPT !["support"] =
                  Some(interpolate(support[1], SupportRange[1], SupportRange[2]))]
        ELSE a1

\* A set() that tests its arguments for truth: 0.0 counts as not supplied.
Truthy(t) == IF t = Some(0) THEN None ELSE t

ClawSetTruthy(grip, support) ==
    /\ ServoCall("claw_set", <<grip, support>>)
    /\ angle' = ClawSetAngles(angle, Truthy(grip), Truthy(support))
    /\ sres' = "returned"
    /\ UNCHANGED <<last_pitch, last_roll>>

ClawSet(grip, support) ==
    /\ ServoCall("claw_set", <<grip, support>>)
    /\ angle' = ClawSetAngles(angle, grip, support)
    /\ sres' = "returned"
    /\ UNCHANGED <<last_pitch, last_roll>>

\* An open() that moves the servos only when nothing was written to them yet.
ClawOpenOnce ==
    /\ ServoCall("claw_open", <<>>)
    /\ angle' = IF angle["grip"] = None
                THEN ClawSetAngles(angle, Some(TDen), Some(TDen))
                ELSE angle
    /\ sres' = "returned"
    /\ UNCHANGED <<last_pitch, last_roll>>

\* Claw.open, lines 56-58: self.set(grip=1.0, support=1.0)
ClawOpen ==
    /\ ServoCall("claw_open", <<>>)
    /\ angle' = ClawSetAngles(angle, Some(TDen), Some(TDen))
    /\ sres' = "returned"
    /\ UNCHANGED <<last_pitch, last_roll>>

\* Claw.close, lines 60-62: self.set(grip=0.0, support=0.0)
ClawClose ==
    /\ ServoCall("claw_close", <<>>)
    /\ angle' = ClawSetAngles(angle, Some(0), Some(0))
    /\ sres' = "returned"
    /\ UNCHANGED <<last_pitch, last_roll>>


\* ------------------------------------------------------- specifications

\* The gantry of config.py: position (0, 0) and two motors of the same
\* steps_per_revolution.
Init ==
    /\ StepperInit
    /\ OrchInit
    /\ GantryConstructed(<<0, 0>>, <<MaxSpi, MaxSpi>>)
    /\ ServoInit

Next == WorkerNext \/ CallerNext

Spec == Init /\ [][Next]_vars

\* The worker is a thread of its own (line 131): as long as it can take a step
\* of loop() it eventually takes one. Nothing is assumed of the caller.
SpecLive == Spec /\ WF_vars(WorkerNext)

\* A controller in continuous mode whose delay is assigned while it runs.
NextDelay ==
    \/ \E v \in DelayValues : SetDelay(v)
    \/ Start
    \/ \E e \in RoundingErrors : WInit(e)
    \/ WWhile
    \/ WIfTarget
    \/ WContinuous

SpecDelay == Init /\ [][NextDelay]_vars

\* The orchestrator: the MQTT thread, the button thread, the main thread and
\* the sort workers.
\* Line 218 raises in every sort worker, so that System.process_sort_request
\* and lines 220-221 are never entered from here.
HandlerNext ==
    \/ \E h \in Handlers, captured \in BOOLEAN, sent \in BOOLEAN :
          ProcessImage(h, captured, sent)
    \/ \E h \in Handlers : SetProcessingRequest(h)
    \/ \E h \in Handlers : SetProcessingStatus(h)
    \/ OnCategorizationError
    \/ \E c \in Categories : OnCategorization(c)

SortWorkerNext ==
    \/ \E w \in SortWorkers : SetSortingState(w)
    \/ \E w \in SortWorkers : SetSortingTarget(w)
    \/ \E w \in SortWorkers : SetSortingStatus(w)
    \/ \E w \in SortWorkers, ok \in BOOLEAN : SortDisplay(w, ok)
    \/ \E w \in SortWorkers : SortCallSystem(w)

KeepaliveNext == KeepaliveDue \/ KeepaliveStatus

NextOrch == HandlerNext \/ KeepaliveNext \/ SortWorkerNext

SpecOrch == Init /\ [][NextOrch]_vars

\* System.process_sort_request called with its one position argument.
NextSystem ==
    \/ \E pos \in DirectPositions : DirectSortRequest(pos)
    \/ \E ok \in BOOLEAN : SystemStep(DirectCaller, ok)

SpecSystem == Init /\ [][NextSystem]_vars

\* The gantry, for every calibration.
InitGantry ==
    /\ StepperInit
    /\ OrchInit
    /\ ServoInit
    /\ \E ox \in 0..MaxZero, oy \in 0..MaxZero, l \in 1..MaxSpi, r \in 1..MaxSpi :
          GantryConstructed(<<ox, oy>>, <<l, r>>)

NextGantry ==
    \/ \E m \in Motors : MotorArrive(m)
    \/ \E x \in Carts, y \in Carts : GantrySetTarget(x, y)
    \/ \E x \in Carts, y \in Carts : GantryRunToPosition(x, y)
    \/ GantryRunRight
    \/ GantryRunReturn
    \/ \E what \in FanOuts, okL \in BOOLEAN, okR \in BOOLEAN :
          GantryFanOut(what, okL, okR)
    \/ \E okStop \in BOOLEAN \X BOOLEAN, okDisable \in BOOLEAN \X BOOLEAN :
          SystemRelease(okStop, okDisable)
    \/ GantryStepsToCartesian

SpecGantry == InitGantry /\ [][NextGantry]_vars

\* The gantry with the calibration of config.py.
SpecConfigGantry == Init /\ [][NextGantry]_vars

\* The construction of a Gantry: no field of the object is assigned when
\* __init__ is entered; the two motors are constructed (enabled, at rest).
InitConstruct ==
    /\ StepperInit
    /\ OrchInit
    /\ ServoInit
    /\ gargs = None
    /\ zero_position = Unassigned
    /\ steps_per_inch = Unassigned
    /\ motor = [m \in Motors |->
                  [enabled |-> TRUE, position |-> 0, target |-> 0, moving |-> FALSE]]
    /\ gpc = "unconstructed"
    /\ gxy = None
    /\ gsteps = None
    /\ gres = "none"
    /\ gcalls = <<>>
    /\ cart = None
    /\ gcount = 0

NextConstruct ==
    \E x \in Carts, y \in Carts, l \in 1..MaxSpi, r \in 1..MaxSpi :
        GantryInit(<<x, y>>, <<l, r>>)

SpecConstruct == InitConstruct /\ [][NextConstruct]_vars

\* The claw and the end effector, called by one thread.
NextServo ==
    \/ \E pitch \in OptAngle, roll \in OptAngle, yaw \in OptAngle :
          EndEffectorSet(pitch, roll, yaw)
    \/ EndEffectorReset
    \/ \E v \in EEValues : EndEffectorYaw(v)
    \/ \E grip \in OptT, support \in OptT : ClawSet(grip, support)
    \/ ClawOpen
    \/ ClawClose

SpecServo == Init /\ [][NextServo]_vars

\* ================================================================ claims
\* The stepper claims are checked under Spec.

\* The caller is inside stop(), past the not-running check.
InStop == cpc \in {"stop_keepalive", "stop_join", "stop_reset"}

\* C1: on a started controller, after a target T is assigned and wait() is
\* called right after it, position == T at the moment wait() returns.
C1_WaitReachesTarget ==
    (cres = "wait_done" /\ waitFor # None) => observed = waitFor[1]

\* C7: on a started controller whose worker has finished at least one loop
\* iteration and that is not being stopped, is_busy is true whenever the target
\* is unset (continuous move) or differs from the position.
C7_BusyWheneverMoving ==
    (worker # "none" /\ alive /\ slept # None /\ ~InStop)
        => ((target = None \/ target # Some(steps)) => is_busy)

\* C8: stop() on a running controller returns only after the worker loop has
\* exited, with the target unset and position reset to -1; stop() on a
\* controller that is not running raises the not-running error and changes
\* nothing, and stop() goes past its check only when the worker is alive.
C8_StopReturned ==
    cres = "stopped" =>
        /\ ~alive /\ wpc = "dead"
        /\ worker = "none"
        /\ target = None
        /\ steps = ResetSteps

C8_NotRunningError == cres = "not_running" => (worker = "none" \/ ~alive)

C8_StopStep ==
    /\ (cpc = "ready" /\ cpc' = "ready" /\ cres' = "not_running")
          => UNCHANGED <<steps, target, direction, delay, pins, worker, alive,
                         worker_keepalive, worker_busy, wpc>>
    /\ (cpc = "ready" /\ cpc' = "stop_keepalive") => (worker # "none" /\ alive)

C8_StopContract ==
    /\ [](C8_StopReturned /\ C8_NotRunningError)
    /\ [][C8_StopStep]_vars

\* Witness of C8: stop() has returned after it was called in the middle of a
\* targeted move, whose remaining steps the worker took before it exited.
C8_Witness ==
    /\ cres = "stopped"
    /\ afterStop >= 1
    /\ steps = ResetSteps
    /\ ~alive

\* C9: once stop() is called in the middle of a targeted move, the worker
\* takes at most the one step in progress of that move.
C9_StopAbandonsTarget == afterStop <= 1

\* C10: once a new target T2 is assigned in the middle of a targeted move, at
\* most the one step in progress moves the position away from T2.
C10_RetargetVisibleNextIteration == away <= 1

\* A target T is assigned on a controller whose worker is alive and that is
\* not being stopped.
Assigned(T) == target = Some(T) /\ worker # "none" /\ alive /\ ~InStop

\* The controller is at T with busy false.
Parked(T) == steps = T /\ ~is_busy

\* C11: under fair scheduling of the worker, a target T assigned on a started
\* controller leads to position == T with busy false, unless the target is
\* assigned again or stop() is called (both change self.target); and a
\* controller parked at its target stays parked there until then.
C11_Reaches == \A T \in Targets : Assigned(T) ~> (Parked(T) \/ target # Some(T))

\* The worker holds a difference it computed from an earlier target.
StaleRemaining == wpc = "check_remaining" /\ target # Some(steps + wrem)

C11_Remains ==
    \A T \in Targets :
        (Assigned(T) /\ Parked(T) /\ ~StaleRemaining)
            => (Parked(T)' \/ target' # Some(T))

C11_TargetEventuallyReached == C11_Reaches /\ [][C11_Remains]_vars

\* The worker is executing a loop iteration that calls step().
WorkerStepping == alive /\ wpc \in {"continuous", "for"}

\* C12 as stated: the position changes only by exactly +1 or -1, in a loop
\* iteration of the live worker; nothing outside the loop changes it.
C12_OnlyWorkerSteps ==
    [][steps' # steps => (Abs(steps' - steps) = 1 /\ WorkerStepping)]_vars

\* C12, amended: the position changes only by exactly +1 or -1 in a loop
\* iteration of the live worker, or by stop(), which resets it to -1 after the
\* worker has ended.
C12_StepOrReset ==
    [][steps' # steps =>
          \/ Abs(steps' - steps) = 1 /\ WorkerStepping /\ cpc' = cpc
          \/ cpc = "stop_reset" /\ ~alive /\ steps' = ResetSteps]_vars

\* Witness of C12: stop() has returned and has reset a position that the
\* worker had stepped to, and whose pin pattern is not the one of -1.
C12_Witness ==
    /\ cres = "stopped"
    /\ steps = ResetSteps
    /\ pins \notin {<<0, 0, 0, 0>>, Seq4[(ResetSteps % Len(Seq4)) + 1]}

\* The worker threads of the controller that are alive.
LiveWorkers == orphans + (IF alive THEN 1 ELSE 0)

\* A step of start() that raised the already-running error.
StartRaised == cpc = "ready" /\ cres # "already_running" /\ cres' = "already_running"

\* A step that created a worker thread.
Spawned == wpc' = "init" /\ wpc # "init"

\* C13: start() raises the already-running error exactly when the worker is
\* alive, and then changes nothing; a worker is created only while none is
\* alive; at most one worker of the controller is alive, whatever start() and
\* stop() calls were made.
C13_StartStep ==
    /\ StartRaised =>
          /\ worker # "none" /\ alive
          /\ UNCHANGED <<steps, target, direction, delay, pins, worker, alive,
                         worker_keepalive, worker_busy, wpc, orphans>>
    /\ Spawned => (LiveWorkers = 0 /\ cres' = "started")
    /\ (cpc = "ready" /\ cres' = "started" /\ cres # "started") => Spawned

C13_OneWorker == [](LiveWorkers <= 1) /\ [][C13_StartStep]_vars

\* Witness of C13: after a stop() and a new start(), a further start() was
\* refused while the worker was alive.
C13_Witness ==
    /\ cres = "already_running"
    /\ worker # "none" /\ alive
    /\ LiveWorkers = 1
    /\ steps = ResetSteps
    /\ pins \notin {<<0, 0, 0, 0>>, Seq4[(ResetSteps % Len(Seq4)) + 1]}

\* C14: every delay the worker has slept for is within
\* base_delay <= delay <= max_delay.
C14_DelayWithinBounds ==
    slept # None => (delay <= slept[1] /\ slept[1] <= Scaled(MaxDelay))

\* The gantry claims are checked under SpecGantry.

\* The step target computed for motor m by the call in progress or last made.
Computed(m) == IF m = "left" THEN gsteps[1][1] ELSE gsteps[1][2]

\* C15: while run_to_position blocks on the left motor's move, the right
\* motor's target has been issued too; and once run_to_position has returned,
\* both motors are at rest at their computed targets.
C15_IssuesBothThenBlocks ==
    /\ (gpc = "run_left" /\ motor["left"].moving)
          => motor["right"].target = Computed("right")
    /\ gres = "position_reached" =>
          \A m \in Motors : ~motor[m].moving /\ motor[m].position = Computed(m)

\* C16: when the call on one motor fails in enable(), disable() or stop(), the
\* same call was still made on the other motor and the gantry call returned
\* without raising.
C16_BestEffortFanOut ==
    (\E i \in 1..Len(gcalls) : ~gcalls[i][3]) =>
        /\ gres = "returned"
        /\ \A m \in Motors : \E i \in 1..Len(gcalls) : gcalls[i][1] = m

\* The rational q = <<numerator, denominator>> is within 1/s of n / CartDen.
WithinOneStep(q, n, s) == Abs(q[1] * CartDen - n * q[2]) * s <= q[2] * CartDen

\* C17: _steps_to_cartesian(_cartesian_to_steps(x, y)) is (x, y) within the
\* distance of one step on each axis, for every calibration.
C17_RoundTrip ==
    cart # None =>
        /\ WithinOneStep(cart[1][1], gxy[1][1], steps_per_inch[1])
        /\ WithinOneStep(cart[1][2], gxy[1][2], steps_per_inch[2])

\* The claw and end effector claims are checked under SpecServo.

\* The step is a call of EndEffector.set that supplies pitch or roll.
SetsPitchOrRoll ==
    /\ sflip' # sflip
    /\ sargs'[1].op = "ee_set"
    /\ (sargs'[1].args[1] # None \/ sargs'[1].args[2] # None)

\* C18: a set() that supplies pitch or roll completes without error; the axis
\* that is not supplied keeps its last value, a supplied one (0 included)
\* replaces it, and the servo angles written are those of the resulting pitch
\* and roll.
C18_HoldsLastValue ==
    [][SetsPitchOrRoll =>
          LET a == sargs'[1].args
              p == IF a[1] # None THEN a[1][1] ELSE last_pitch
              r == IF a[2] # None THEN a[2][1] ELSE last_roll
          IN  /\ sres' = "returned"
              /\ last_pitch' = p
              /\ last_roll' = r
              /\ <<angle'["diff_left"], angle'["diff_right"]>> =
                     <<Some(DifferentialAngles(p, r)[1]),
                       Some(DifferentialAngles(p, r)[2])>>]_vars

\* The last call on the claw commanded t (over TDen) on both servos.
ClawCommanded(t) ==
    /\ sargs # None
    /\ \/ sargs[1].op = "claw_open" /\ t = TDen
       \/ sargs[1].op = "claw_close" /\ t = 0
       \/ sargs[1].op = "claw_set" /\ sargs[1].args = <<Some(t), Some(t)>>

\* C19: after open() the grip and support servos are at grip_open and
\* support_open, after close() at grip_closed and support_closed; a command
\* of 1.0 is open and one of 0.0 is closed.
C19_OpenIsOpen ==
    /\ ClawCommanded(TDen) =>
          /\ angle["grip"] = Some(Deg(GripOpen))
          /\ angle["support"] = Some(Deg(SupportOpen))
    /\ ClawCommanded(0) =>
          /\ angle["grip"] = Some(Deg(GripClosed))
          /\ angle["support"] = Some(Deg(SupportClosed))

\* The orchestrator claims are checked under SpecOrch.

Cycle == {<<"idle", "processing">>, <<"processing", "sorting">>,
          <<"sorting", "idle">>}

\* The thread of a sort request has ended and no device call of it raised.
EndedWithoutFault(w) == spc[w] = "dead" /\ ~faulted[w]

\* The thread is executing process_sort_request and has made its first write
\* (self.state = SystemState.sorting).
Writing(w) == InFlight(w) /\ spc[w] # "set_sorting_state"

\* C2: the orchestrator state changes only along idle -> processing,
\* processing -> sorting, sorting -> idle.
C2_CycleOnly == [][state' # state => <<state, state'>> \in Cycle]_vars

\* C3: a sort request none of whose device calls raised has, when its thread
\* has ended, run the pick-and-place sequence to its end and set the state to
\* idle.
C3_SortReturnsToIdle ==
    \A w \in SortWorkers :
        EndedWithoutFault(w) =>
            /\ \E i \in 1..Len(ops[w]) :
                  ops[w][i] = Op("gantry", "run_to_position", SortPos(scat[w][1]))
            /\ \E i \in 1..Len(ops[w]) : ops[w][i] = Op("state", "set_idle", None)

\* C4: once a device call of a sort request has raised and no sort worker is
\* running any more, the state is not sorting.
C4_FaultFallsBackToIdle ==
    ((\E w \in SortWorkers : faulted[w]) /\ (\A w \in SortWorkers : ~InFlight(w)))
        => state # "sorting"

\* C5: the writes of a finished sort request after its display writes are, in
\* order: claw open, end effector reset, gantry run to the pick pose, claw
\* close, gantry run to (x, 18 - y), state idle, gantry target (0, 0).
C5_SortOrder ==
    \A w \in SortWorkers :
        EndedWithoutFault(w) =>
            SelectSeq(ops[w], LAMBDA o : o.dev # "display") =
                << Op("claw", "open", None),
                   Op("end_effector", "reset", None),
                   Op("gantry", "run_to_position", GrabPosition),
                   Op("claw", "close", None),
                   Op("gantry", "run_to_position", SortPos(scat[w][1])),
                   Op("state", "set_idle", None),
                   Op("gantry", "set_target", <<0, 0>>) >>

\* C6: sort requests are serialized: no two threads are inside
\* process_sort_request, past their first write, at the same time.
C6_SortsSerialized ==
    \A v, w \in SortWorkers : (Writing(v) /\ Writing(w)) => v = w

\* A sort request is running on some sort worker.
SortInProgress == \E w \in SortWorkers : InFlight(w)

\* The MQTT thread, the button thread and the main thread are each inside their
\* own code (on_mqtt_message, process_image, the keepalive loop), at a
\* statement that does not wait for a sort request or a motor.
OutsideSort ==
    /\ \A h \in Handlers :
          hpc[h] \in {"idle", "set_processing_request", "set_processing_status"}
    /\ kpc \in {"sleep", "update_status"}

\* Whatever the MQTT thread, the button thread and the main thread are about to
\* do can be done now: an error message and a capture request are handled, a
\* capture in progress goes on, a keepalive that is due is published.
CanProceed ==
    /\ hpc["mqtt"] = "idle" => ENABLED OnCategorizationError
    /\ \A h \in Handlers :
          /\ (/\ hpc[h] = "idle"
              /\ clock + Cardinality({g \in Handlers : hpc[g] # "idle"}) < MaxCaptures)
                 => ENABLED ProcessImage(h, TRUE, TRUE)
          /\ hpc[h] = "set_processing_request" => ENABLED SetProcessingRequest(h)
          /\ hpc[h] = "set_processing_status" => ENABLED SetProcessingStatus(h)
    /\ kpc = "sleep" => ENABLED KeepaliveDue
    /\ kpc = "update_status" => ENABLED KeepaliveStatus

\* C20: while a sort request is in progress the MQTT thread, the button thread
\* and the main thread are not inside it and wait for nothing: capture
\* requests, categorization errors and keepalive publishes can be processed
\* before the sort request ends.
C20_NotBlocked == SortInProgress => (OutsideSort /\ CanProceed)

\* A sort worker is at its display calls while the MQTT thread, which started
\* it, is publishing the status of a capture request received since, and the
\* main thread is publishing a keepalive.
C20_Witness ==
    /\ \E w \in SortWorkers :
          spc[w] \in {DisplayCalls[i] : i \in 1..Len(DisplayCalls)}
    /\ hpc["mqtt"] = "set_processing_status"
    /\ kpc = "update_status"

\* The step is the update_status() that ends set_processing, set_sorting or
\* set_idle, the transition to the state named st.
TransitionPublish(st) ==
    \/ /\ st = "processing"
       /\ \E h \in Handlers :
             hpc[h] = "set_processing_status" /\ hpc'[h] # hpc[h]
    \/ /\ st = "sorting"
       /\ \E w \in SortWorkers :
             spc[w] = "set_sorting_status" /\ spc'[w] # spc[w]
    \/ /\ st = "idle"
       /\ \E w \in SortWorkers :
             spc[w] = "set_idle_status" /\ spc'[w] # spc[w]

\* C21: the update_status() of a transition publishes one status message, and
\* that message carries the name of the state the transition has set.
C21_TransitionPublishesNewState ==
    [][\A st \in {"processing", "sorting", "idle"} :
          TransitionPublish(st) =>
              /\ npublished' # npublished
              /\ published' # None
              /\ published'[1].status = to_status_name(st)]_vars

\* The step is a process_image that logged another outcome than the last
\* thing logged.
ImageProcessed == hres' # hres /\ hres' # "error_logged"

\* Thread h is the one taking the step.
HandlerSteps(h) == hpc'[h] # hpc[h]

\* C22: a process_image enters processing exactly when the image was captured
\* and its publish succeeded, and only such a thread goes on to record the
\* request timestamp; when there is no image or the publish failed, state,
\* last_sort_request and last_sort_target are left alone and no status is
\* published.
C22_ProcessingOnlyOnSuccess ==
    [][/\ ImageProcessed =>
             IF hres' = "published"
             THEN /\ state' = "processing"
                  /\ \E h \in Handlers :
                        HandlerSteps(h) /\ hpc'[h] = "set_processing_request"
             ELSE UNCHANGED <<state, last_sort_request, last_sort_target,
                              published, npublished, hpc>>
       /\ last_sort_request' # last_sort_request =>
             \E h \in Handlers :
                 /\ HandlerSteps(h)
                 /\ hpc[h] = "set_processing_request"
                 /\ hpc'[h] = "set_processing_status"
       /\ \A h \in Handlers :
             (HandlerSteps(h) /\ hpc'[h] = "set_processing_request") =>
                 hres' = "published"]_vars

\* A process_image whose publish failed during a sort request: the state is
\* still sorting and no request timestamp was recorded.
C22_Witness ==
    /\ hres = "publish_failed"
    /\ state = "sorting"
    /\ last_sort_request = None
    /\ SortInProgress

\* The step is the handling of a categorization-error message, the last thing
\* logged being something else.
ErrorHandled == hres' = "error_logged" /\ hres # "error_logged"

\* C23: handling a categorization-error message changes neither state,
\* last_sort_request nor last_sort_target, starts no sort worker, makes no
\* write to a device and publishes no status.
C23_ErrorLoggedOnly ==
    [][ErrorHandled =>
          UNCHANGED <<state, last_sort_request, last_sort_target, published,
                      npublished, spc, scat, spos, ops, hpc, deviceVars,
                      stepperVars>>]_vars

\* A categorization error was handled during a sort request, after a capture
\* was processed.
C23_Witness ==
    /\ hres = "error_logged"
    /\ state = "sorting"
    /\ last_sort_request # None
    /\ SortInProgress

\* The step is a call of System.release().
Released == gcount' # gcount /\ gres' \in {"released", "release_raised"}

\* The motor calls of release(), in order.
ReleaseCalls == << <<"left", "stop">>, <<"right", "stop">>,
                   <<"left", "disable">>, <<"right", "disable">> >>

\* C24: release() calls stop on the left and the right motor and then disable
\* on the left and the right motor, in that order and as far as no call
\* raises; when it returns both motors are stopped and disabled. It does nothing
\* else: no motor gets a target, the gantry's last position request stays, and
\* no servo is written.
C24_ReleaseStopsAndDisables ==
    [][Released =>
          /\ Len(gcalls') \in 1..Len(ReleaseCalls)
          /\ \A i \in 1..Len(gcalls') :
                /\ <<gcalls'[i][1], gcalls'[i][2]>> = ReleaseCalls[i]
                /\ i < Len(gcalls') => gcalls'[i][3]
          /\ gres' = "released" <=>
                /\ Len(gcalls') = Len(ReleaseCalls)
                /\ gcalls'[Len(gcalls')][3]
          /\ gres' = "released" =>
                \A m \in Motors : ~motor'[m].moving /\ ~motor'[m].enabled
          /\ \A m \in Motors :
                /\ motor'[m].target = motor[m].target
                /\ motor'[m].position = motor[m].position
          /\ UNCHANGED <<gxy, gsteps, servoVars>>]_vars

\* release() has returned while a motor was on its way to a target other
\* than 0.
C24_Witness ==
    /\ gres = "released"
    /\ \E m \in Motors : motor[m].target # 0 /\ motor[m].position # motor[m].target
    /\ \A m \in Motors : ~motor[m].moving /\ ~motor[m].enabled

\* The last call on the claw or the end effector was op.
LastCall(op) == sargs # None /\ sargs[1].op = op

\* C25: after reset(), whatever was set before, both differential servos are
\* at the neutral angles read at construction, last_pitch and last_roll are 0
\* and the yaw servo is at its neutral angle.
C25_ResetRestoresNeutral ==
    LastCall("ee_reset") =>
        /\ sres = "returned"
        /\ angle["diff_left"] = Some(Neutral[1])
        /\ angle["diff_right"] = Some(Neutral[2])
        /\ angle["yaw"] = Some(YawNeutral)
        /\ last_pitch = 0
        /\ last_roll = 0

\* reset() has returned, called on an end effector that set() calls had moved
\* away from neutral on every axis.
C25_Witness ==
    /\ LastCall("ee_reset")
    /\ sargs[1].found.pitch # 0
    /\ sargs[1].found.roll # 0
    /\ sargs[1].found.angle["yaw"] # Some(YawNeutral)

\* The angles of the grip and the support servo.
ClawAngles == <<angle["grip"], angle["support"]>>

\* C26: the servo angles after open() are the same whatever was called before,
\* and so are those after close(): open(), close(), open() ends where the
\* first open() ended.
C26_OpenCloseIdempotent ==
    /\ LastCall("claw_open") =>
          ClawAngles = <<Some(Deg(GripClosed)), Some(Deg(SupportClosed))>>
    /\ LastCall("claw_close") =>
          ClawAngles = <<Some(Deg(GripOpen)), Some(Deg(SupportOpen))>>

\* open() has been called on a claw that a close() had moved.
C26_Witness ==
    /\ LastCall("claw_open")
    /\ sargs[1].found.angle["grip"] = Some(Deg(GripOpen))
    /\ sargs[1].found.angle["support"] = Some(Deg(SupportOpen))

\* The step is an assignment to the delay property.
DelayAssigned == dreq' # dreq

\* C27: assigning a negative value to delay raises and leaves the delay as it
\* was; a value that is not negative, 0 included, becomes the delay.
C27_NegativeDelayRejected ==
    [][DelayAssigned =>
          IF dreq'[1] < 0
          THEN cres' = "delay_rejected" /\ delay' = delay
          ELSE cres' = "delay_set" /\ delay' = dreq'[1]]_vars

\* A negative value was rejected on a running controller whose delay had been
\* changed from the constructor's.
C27_Witness ==
    /\ cres = "delay_rejected"
    /\ dreq # None /\ dreq[1] < 0
    /\ delay # Scaled(BaseDelay)
    /\ alive

\* The step is iteration wi of the for loop of a targeted move.
MoveStep == alive /\ wpc = "for" /\ wi' = wi + 1

\* C28: every targeted move starts its ramp at max_delay; the delay does not
\* increase over the first accel_steps steps, is the base delay in between and
\* does not decrease over the last accel_steps steps.
C28_RampPerMove ==
    [][MoveStep =>
          /\ wi = 0 => current_delay = Scaled(MaxDelay)
          /\ wi < AccelSteps => current_delay' <= current_delay
          /\ (wi >= AccelSteps /\ wi <= wrem - AccelSteps) => current_delay' = delay
          /\ (wi >= AccelSteps /\ wi > wrem - AccelSteps) =>
                current_delay' >= current_delay]_vars

\* C29: during a stop() that found the controller parked at its target, the
\* worker takes no step before it exits.
C29_StopWhenParkedTakesNoStep ==
    [][(InStop /\ parked /\ alive) => UNCHANGED <<steps, pins>>]_vars

\* The worker finds remaining == 0 on line 164.
FindsParked == alive /\ wpc = "check_remaining" /\ wrem = 0 /\ wpc' = "while"

\* The worker has found self.target is None on line 151 and is about to take
\* the step of that iteration of continuous mode.
InContinuousIteration == alive /\ wpc = "continuous"

\* C30: while the target is set and equal to the position, no step is taken
\* (the iteration of continuous mode in progress when the target was assigned
\* aside): the position changes only once the target has changed; and the
\* worker that finds itself at the target reports busy false and takes no step.
C30_ParkedTakesNoStep ==
    [][/\ (target # None /\ target = Some(steps) /\ ~InContinuousIteration)
             => steps' = steps
       /\ FindsParked => (~worker_busy' /\ ~is_busy' /\ steps' = steps)]_vars

\* ------------------------------------------------- continuous mode (C31)

\* (max_delay - base_delay) / accel_steps, exactly (delays are scaled by
\* AccelSteps, so the quotient is an integer).
RampStep == (Scaled(MaxDelay) - delay) \div AccelSteps

\* One iteration of continuous mode, lines 152-160.
ContinuousStep == alive /\ wpc = "continuous" /\ wpc' # wpc

\* C31: every iteration of continuous mode sets busy, takes one step in the
\* configured direction and sleeps for the next delay of the ramp: above
\* base_delay the delay goes down by (max_delay - base_delay) / accel_steps
\* (as the worker computed it, within rounding) and does not pass base_delay;
\* at base_delay it stays exactly base_delay.
C31_ContinuousRamp ==
    [][ContinuousStep =>
          /\ worker_busy'
          /\ steps' = steps + direction
          /\ delay_step - RampStep \in RoundingErrors
          /\ current_delay' = IF current_delay > delay
                              THEN current_delay - delay_step
                              ELSE delay
          /\ slept' = Some(current_delay')
          /\ current_delay' >= delay]_vars

\* ------------------------------------------- idle and running sorts (C32)

\* The sort worker is between its claw-open and its final gantry move
\* (subsystems/__init__.py, lines 39-43).
InSequence(w) == spc[w] \in SysPcs

\* C32: whenever the state is idle no sort worker is between its claw-open and
\* its final gantry move, and no step sets the state to idle while one is.
C32_IdleMeansNoSortRunning ==
    /\ state = "idle" => \A w \in SortWorkers : ~InSequence(w)
    /\ \A w \in SortWorkers : spc[w] = "set_idle_status" =>
          \A v \in SortWorkers : ~InSequence(v)

\* Some sort worker has entered the pick-and-place sequence, or has passed it.
C32_SequenceEntered ==
    \E w \in SortWorkers :
        InSequence(w) \/ spc[w] \in {"set_idle_state", "set_idle_status", "gantry_origin"}

\* ------------------------------------- target_id of a sorting status (C33)

\* The step publishes a status message.
Publishes == npublished' # npublished

\* The sort workers that have executed line 235 (self.state = sorting).
SetSorting == {w \in SortWorkers : spc[w] \notin {"unborn", "set_sorting_state"}}

\* C33: a status message published with status 'sorting' carries a target_id,
\* that of a categorization result whose worker has set the state to sorting;
\* when one worker only has done so, that worker's.
C33_SortingCarriesTarget ==
    [][(Publishes /\ published'[1].status = "sorting") =>
          /\ published'[1].target_id # None
          /\ \E w \in SetSorting : published'[1].target_id = Some(scat[w][1].id)
          /\ \A w \in SetSorting :
                SetSorting = {w} => published'[1].target_id = Some(scat[w][1].id)]_vars

\* ------------------------------------------ Gantry construction (C34, C35)

\* The step is a call of Gantry(left, right, position=P).
Constructs == gcount' # gcount /\ gargs' # None

\* C34: constructing a Gantry succeeds and leaves the zero offset and the
\* steps-per-inch pair assigned, no field having been read unassigned; a field
\* that is assigned does not change.
C34_ConstructionDefinesCalibration ==
    [][/\ Constructs =>
             /\ gres' = "constructed"
             /\ zero_position' # Unassigned
             /\ steps_per_inch' # Unassigned
       /\ zero_position # Unassigned => zero_position' = zero_position
       /\ steps_per_inch # Unassigned => steps_per_inch' = steps_per_inch]_vars

\* The rational <<n, d>> equals c / CartDen.
SameCart(q, c) == q[1] * CartDen = c * q[2]

\* In the state reached, motor steps (0, 0) and the Cartesian point P
\* correspond under the two transforms of the gantry.
ZeroStepsAt(P) ==
    /\ cartesian_to_steps(P[1], P[2])' = <<0, 0>>
    /\ SameCart(steps_to_cartesian(0, 0)[1], P[1])'
    /\ SameCart(steps_to_cartesian(0, 0)[2], P[2])'

\* C35: Gantry(left, right, position=P) yields a gantry for which
\* cartesian_to_steps(P) = (0, 0) and steps_to_cartesian(0, 0) = P, for every P.
C35_ZeroStepsAtInitialPosition ==
    [][Constructs =>
          IF gres' = "constructed" THEN ZeroStepsAt(gargs'[1].position) ELSE FALSE]_vars

\* ------------------------------------------------- the pin pattern (C36)

\* seq[p % len(seq)]: Python's % with a positive divisor is non-negative, as
\* is TLA+'s.
PatternOf(p) == Seq4[(p % Len(Seq4)) + 1]

\* The index in the sequence table of a pattern of the table.
IndexOf(pat) == CHOOSE i \in 0..(Len(Seq4) - 1) : Seq4[i + 1] = pat

\* The step is a call of step() by the worker.
StepCalled == WorkerStepping /\ steps' # steps

\* C36: after every step() the pins carry seq[position mod 4], the modulus
\* being non-negative for negative positions too; a step taken from a position
\* whose pattern the pins carry moves the pattern one entry along the table,
\* cyclically, forwards for one direction and backwards for the other.
C36_PinPatternFollowsPosition ==
    [][StepCalled =>
          /\ pins' = PatternOf(steps')
          /\ pins = PatternOf(steps) =>
                IndexOf(pins') = (IndexOf(pins) + direction) % Len(Seq4)]_vars

\* The worker has stepped clockwise to a position below -1, and the pins carry
\* the third entry of the table.
C36_Witness ==
    /\ alive
    /\ direction = Cw
    /\ steps = -2
    /\ pins = Seq4[3]

\* --------------------------------- the differential's angle pair (C37)

\* The pair of angles Differential.set(pitch=p, roll=r) writes.
DiffPair(p, r) ==
    LET d == DifferentialSet(angle, Some(p), Some(r))
    IN  <<d.angle["diff_left"], d.angle["diff_right"]>>

\* a is the neutral angle n offset by pitch p and roll r, each added or
\* subtracted.
OffsetBy(a, n, p, r) == a \in {Some(n + p - r), Some(n - p + r),
                               Some(n + p + r), Some(n - p - r)}

\* C37: a Differential.set that returns has written to each servo its neutral
\* angle offset by the pitch and the roll, and no other (pitch, roll) would
\* have made it write the same pair of angles.
C37_PairDeterminesPitchRoll ==
    [][(SetsPitchOrRoll /\ sres' = "returned") =>
          /\ OffsetBy(angle'["diff_left"], Neutral[1], last_pitch', last_roll')
          /\ OffsetBy(angle'["diff_right"], Neutral[2], last_pitch', last_roll')
          /\ \A p \in EEValues, r \in EEValues :
                DiffPair(p, r) = <<angle'["diff_left"], angle'["diff_right"]>>
                    => <<p, r>> = <<last_pitch', last_roll'>>]_vars

\* ------------------------------------------------ Claw.set's frame (C38)

\* The step is a call of Claw.set.
ClawSetCalled == sflip' # sflip /\ sargs'[1].op = "claw_set"

\* The angle of servo s after a set() that was given t for it (None: not
\* supplied), its range being (lo, hi).
AxisAfter(s, t, lo, hi) ==
    IF t = None THEN angle'[s] = angle[s]
    ELSE angle'[s] = Some(interpolate(t[1], lo, hi))

\* C38: Claw.set writes the interpolated angle to the servo of each axis that
\* is supplied, 0.0 included, and leaves the servo of an axis that is not
\* supplied, and everything else, as it was.
C38_ClawSetWritesSuppliedOnly ==
    [][ClawSetCalled =>
          LET grip == sargs'[1].args[1]
              support == sargs'[1].args[2]
          IN  /\ sres' = "returned"
              /\ AxisAfter("grip", grip, GripOpen, GripClosed)
              /\ AxisAfter("support", support, SupportOpen, SupportClosed)
              /\ \A s \in Servos \ {"grip", "support"} : angle'[s] = angle[s]
              /\ UNCHANGED <<last_pitch, last_roll>>]_vars

\* set(grip=0.0) alone has moved the grip servo of a claw whose support servo
\* had been written, and the support servo is where it was.
C38_Witness ==
    /\ LastCall("claw_set")
    /\ sargs[1].args = <<Some(0), None>>
    /\ sargs[1].found.angle["support"] # None
    /\ angle["support"] = sargs[1].found.angle["support"]
    /\ sargs[1].found.angle["grip"] # angle["grip"]
    /\ angle["grip"] = Some(Deg(GripOpen))

\* ------------------------------------------------- yaw on its own (C39)

\* The step is a call that commands the yaw alone: the yaw setter, or
\* EndEffector.set with yaw and neither pitch nor roll.
YawCommanded ==
    /\ sflip' # sflip
    /\ \/ sargs'[1].op = "ee_yaw"
       \/ /\ sargs'[1].op = "ee_set"
          /\ sargs'[1].args[1] = None
          /\ sargs'[1].args[2] = None
          /\ sargs'[1].args[3] # None

\* The yaw the call commands.
YawOf(call) == IF call.op = "ee_yaw" THEN call.args[1] ELSE call.args[3][1]

\* The step is a call of EndEffector.set without yaw.
SetWithoutYaw ==
    /\ sflip' # sflip
    /\ sargs'[1].op = "ee_set"
    /\ sargs'[1].args[3] = None

\* C39: a call that commands the yaw alone writes neutral yaw + v to the yaw
\* servo and changes no other servo angle, nor last_pitch, nor last_roll; a
\* set() without yaw leaves the yaw servo as it was.
C39_YawIndependent ==
    [][/\ YawCommanded =>
             /\ sres' = "returned"
             /\ angle' = [angle EXCEPT !["yaw"] = Some(YawNeutral + YawOf(sargs'[1]))]
             /\ UNCHANGED <<last_pitch, last_roll>>
       /\ SetWithoutYaw => angle'["yaw"] = angle["yaw"]]_vars

\* The yaw setter has moved the yaw servo of an end effector whose differential
\* was away from neutral, and the differential is where it was.
C39_Witness ==
    /\ LastCall("ee_yaw")
    /\ sargs[1].found.angle["yaw"] # angle["yaw"]
    /\ last_pitch # 0
    /\ angle["diff_left"] # Some(Neutral[1])
    /\ angle["diff_left"] = sargs[1].found.angle["diff_left"]

====
